---- MODULE Spec2Model ----
(***************************************************************************)
(* Model of llmcompressor/utils/pytorch/module.py: target matching, the    *)
(* resolver match_layers_params over a torch module tree, the role         *)
(* classifiers, the best-match finder and the layer mutator set_layer.     *)
(*                                                                         *)
(* Python strings are sequences of one-character strings, so that slicing  *)
(* (target[:3]), splitting on "." and regular-expression matching are      *)
(* computed character by character as the code computes them.              *)
(***************************************************************************)
EXTENDS Integers, Sequences, FiniteSets, TLC

\* ------------------------------------------------------------------ bounds
\* longest list of targets handed to a query
MaxTargets == 2
\* most set_layer calls in one behaviour of the mutator specification
MaxSets == 2

\* ----------------------------------------------------------------- strings
Min(a, b) == IF a < b THEN a ELSE b

\* s[:n]
Take(s, n) == SubSeq(s, 1, Min(n, Len(s)))

\* s[n:]
Drop(s, n) == SubSeq(s, Min(n, Len(s)) + 1, Len(s))

\* "." in s
HasDot(s) == \E i \in 1..Len(s) : s[i] = "."

\* s.split(".")
RECURSIVE Split(_)
Split(s) ==
    IF ~HasDot(s) THEN <<s>>
    ELSE LET d == CHOOSE i \in 1..Len(s) : s[i] = "." /\ \A j \in 1..(i - 1) : s[j] # "."
         IN  <<SubSeq(s, 1, d - 1)>> \o Split(SubSeq(s, d + 1, Len(s)))

\* ".".join(segs)
RECURSIVE Join(_)
Join(segs) ==
    IF Len(segs) = 0 THEN <<>>
    ELSE IF Len(segs) = 1 THEN segs[1]
    ELSE segs[1] \o <<".">> \o Join(Tail(segs))

\* ".".join(s.split(".")[:-1]): what stands before the last "."
ParentPath(s) == Join(SubSeq(Split(s), 1, Len(Split(s)) - 1))

\* s.split(".")[-1]: what stands after the last "."
LastSegment(s) == Split(s)[Len(Split(s))]

\* prefix + ("." if prefix else "") + name
JoinName(prefix, name) == IF prefix = <<>> THEN name ELSE prefix \o <<".">> \o name

\* f"{name}.{param_name}"
Compound(name, param_name) == name \o <<".">> \o param_name

\* the three sentinels (lines 67-69)
ALL_TARGET == <<"_", "_", "A", "L", "L", "_", "_">>
ALL_PRUNABLE_TARGET ==
    <<"_", "_", "A", "L", "L", "_", "P", "R", "U", "N", "A", "B", "L", "E", "_", "_">>
ALL_QUANTIZABLE_TARGET ==
    <<"_", "_", "A", "L", "L", "_", "Q", "U", "A", "N", "T", "I", "Z", "A", "B", "L", "E", "_", "_">>

RE_PREFIX == <<"r", "e", ":">>
WEIGHT == <<"w", "e", "i", "g", "h", "t">>
BIAS == <<"b", "i", "a", "s">>
TRAINING == <<"t", "r", "a", "i", "n", "i", "n", "g">>
FSDP_WRAPPER_NAME ==
    <<"_", "f", "s", "d", "p", "_", "w", "r", "a", "p", "p", "e", "d", "_",
      "m", "o", "d", "u", "l", "e">>

\* --------------------------------------------------------------- re.match
\* The patterns of the model use literal characters, "." (any character),
\* a postfix "*" on a single character or ".", and "$" (end of the string).
AtomMatches(a, ch) == a = "." \/ a = ch

\* the length of the longest run of characters of s after position j that
\* the atom a matches
RECURSIVE RunLen(_, _, _)
RunLen(a, s, j) ==
    IF j < Len(s) /\ AtomMatches(a, s[j + 1]) THEN 1 + RunLen(a, s, j + 1) ELSE 0

\* backtracking matcher: does p[i..] match s starting after position j
RECURSIVE MatchHere(_, _, _, _)
MatchHere(p, i, s, j) ==
    IF i > Len(p) THEN TRUE
    ELSE IF i + 1 <= Len(p) /\ p[i + 1] = "*"
         THEN \E k \in 0..RunLen(p[i], s, j) : MatchHere(p, i + 2, s, j + k)
    ELSE IF p[i] = "$" THEN j = Len(s) /\ MatchHere(p, i + 1, s, j)
    ELSE j < Len(s) /\ AtomMatches(p[i], s[j + 1]) /\ MatchHere(p, i + 1, s, j + 1)

\* mutant: re.fullmatch, the whole name must be consumed
ReFullMatch(pattern, name) == MatchHere(pattern \o <<"$">>, 1, name, 0)

\* bool(re.match(pattern, name)): anchored at position 0, open at the end
ReMatch(pattern, name) == MatchHere(pattern, 1, name, 0)

\* ---------------------------------------------------------- target specs
\* a target specification is a str or a list of str
StrT(s) == [isStr |-> TRUE, str |-> s, list |-> <<>>]
ListT(l) == [isStr |-> FALSE, str |-> <<>>, list |-> l]

\* if isinstance(targets, str): targets = [targets]
AsList(targets) == IF targets.isStr THEN <<targets.str>> ELSE targets.list

NoMatch == <<FALSE, -1>>

RECURSIVE MatchTargetsFrom(_, _, _)
MatchTargetsFrom(name, tl, i) ==
    IF i > Len(tl) THEN NoMatch
    ELSE IF Take(tl[i], 3) = RE_PREFIX
         THEN IF ReMatch(Drop(tl[i], 3), name) THEN <<TRUE, i - 1>>
              ELSE MatchTargetsFrom(name, tl, i + 1)
    ELSE IF name = tl[i] THEN <<TRUE, i - 1>>
    ELSE MatchTargetsFrom(name, tl, i + 1)

match_targets(name, targets) == MatchTargetsFrom(name, AsList(targets), 1)

RECURSIVE MatchClassFrom(_, _, _)
MatchClassFrom(cls, tl, i) ==
    IF i > Len(tl) THEN NoMatch
    ELSE IF cls = tl[i] THEN <<TRUE, i - 1>>
    ELSE MatchClassFrom(cls, tl, i + 1)

\* mutant: class targets go through the name matcher, "re:" included
match_class_regex(cls, targets) == match_targets(cls, targets)

\* match_class(layer, targets), on layer.__class__.__name__
match_class(cls, targets) == MatchClassFrom(cls, AsList(targets), 1)

\* ------------------------------------------------------------ module tree
\* The pool of module objects.  Class, parameters and type family of an
\* object never change; only the child slots (_modules) do.
Nodes == {"r", "m", "l", "c"}
Root == "r"
NodeOrder == <<"m", "l", "c">>

\* layer.__class__.__name__
ClassName(n) ==
    CASE n = "r" -> <<"B", "l", "o", "c", "k">>
      [] n = "m" -> <<"M">>
      [] n = "l" -> <<"L", "i", "n", "e", "a", "r">>
      [] n = "c" -> <<"C", "o", "n", "v", "1", "D">>

\* the framework types the object is an instance of (isinstance)
Isa(n) ==
    CASE n = "l" -> {"Linear"}
      [] n = "c" -> {"TransformerConv1D"}
      [] OTHER -> {}

\* the names of the parameters the object owns itself, in registration order
OwnParams(n) ==
    CASE n = "r" -> <<>>
      [] n = "m" -> <<BIAS>>
      [] n = "l" -> <<WEIGHT, BIAS>>
      [] n = "c" -> <<WEIGHT, BIAS>>

\* attribute names under which a child is registered in the initial trees
AttrA == <<"a">>
AttrLinear == <<"L", "i", "n", "e", "a", "r">>
Attrs == {AttrA, AttrLinear}

VARIABLES
    kids,      \* kids[n]: the ordered child slots <<attribute, object>> of n
    qat,       \* QATLinear was importable (lines 23-32)
    conv1d,    \* TransformerConv1D was importable (lines 41-45)
    last,      \* the call that completed last: operation, arguments, outcome
    pc,        \* position of the set_layer call in progress
    frame,     \* its arguments and locals
    summon,    \* summon_full_params_context acquisitions not yet released
    nsets,     \* set_layer calls started
    prev       \* the set_layer call completed before `last`

vars == <<kids, qat, conv1d, last, pc, frame, summon, nsets, prev>>

\* values a mapping can hold
LayerV(n) == [kind |-> "layer", id |-> n, pname |-> <<>>]
ParamV(n, p) == [kind |-> "param", id |-> n, pname |-> p]

\* outcomes of a call
Ok(v) == [ok |-> TRUE, val |-> v, err |-> "none", missed |-> <<>>]
Raise(e) == [ok |-> FALSE, val |-> <<>>, err |-> e, missed |-> <<>>]
RaiseMissed(m) == [ok |-> FALSE, val |-> <<>>, err |-> "ValueError:targets", missed |-> m]

\* dict, in insertion order: d[k] = v
DictSet(d, k, v) ==
    IF \E i \in 1..Len(d) : d[i][1] = k
    THEN [i \in 1..Len(d) |-> IF d[i][1] = k THEN <<k, v>> ELSE d[i]]
    ELSE Append(d, <<k, v>>)

DictKeys(d) == {d[i][1] : i \in 1..Len(d)}
DictGet(d, k) == d[CHOOSE i \in 1..Len(d) : d[i][1] = k][2]

\* Module.named_modules(): pre-order, each object once (memo)
RECURSIVE WalkNode(_, _, _, _)
RECURSIVE WalkKids(_, _, _, _, _)
WalkNode(ks, n, prefix, memo) ==
    IF n \in memo THEN [out |-> <<>>, memo |-> memo]
    ELSE LET r == WalkKids(ks, ks[n], 1, prefix, memo \cup {n})
         IN  [out |-> <<<<prefix, n>>>> \o r.out, memo |-> r.memo]
WalkKids(ks, ch, i, prefix, memo) ==
    IF i > Len(ch) THEN [out |-> <<>>, memo |-> memo]
    ELSE LET a == WalkNode(ks, ch[i][2], JoinName(prefix, ch[i][1]), memo)
             b == WalkKids(ks, ch, i + 1, prefix, a.memo)
         IN  [out |-> a.out \o b.out, memo |-> b.memo]

named_modules(ks, n) == WalkNode(ks, n, <<>>, {}).out

\* Module.named_parameters(): the parameters of the object and of its
\* descendants, the latter under dotted names
RECURSIVE ParamsOfWalk(_, _)
ParamsOfWalk(nm, i) ==
    IF i > Len(nm) THEN <<>>
    ELSE [k \in 1..Len(OwnParams(nm[i][2])) |->
             <<JoinName(nm[i][1], OwnParams(nm[i][2])[k]),
               ParamV(nm[i][2], OwnParams(nm[i][2])[k])>>]
         \o ParamsOfWalk(nm, i + 1)

named_parameters(ks, n) == ParamsOfWalk(named_modules(ks, n), 1)

\* fix_fsdp_module_name: the wrapper segment FSDP inserts is dropped
DropWrapper(name) == Join(SelectSeq(Split(name), LAMBDA seg : seg # FSDP_WRAPPER_NAME))

fix_fsdp_module_name(name) == DropWrapper(name)

\* ------------------------------------------------------------ classifiers
\* get_terminal_layers: the objects whose own walk yields nothing but them
RECURSIVE TerminalFrom(_, _, _)
TerminalFrom(ks, nm, i) ==
    IF i > Len(nm) THEN <<>>
    ELSE LET rest == TerminalFrom(ks, nm, i + 1)
         IN  IF Len(named_modules(ks, nm[i][2])) > 1 THEN rest
             ELSE <<<<nm[i][1], LayerV(nm[i][2])>>>> \o rest

get_terminal_layers(ks) == Ok(TerminalFrom(ks, named_modules(ks, Root), 1))

\* the isinstance test of get_prunable_layers; the QAT and Conv1D types count
\* only when their import succeeded
IsPrunable(n, hasQat, hasConv1d) ==
    \/ "Linear" \in Isa(n)
    \/ "_ConvNd" \in Isa(n)
    \/ (hasQat /\ "QATLinear" \in Isa(n))
    \/ (hasQat /\ "QATConv2d" \in Isa(n))
    \/ (hasQat /\ "QATConv3d" \in Isa(n))
    \/ (hasConv1d /\ "TransformerConv1D" \in Isa(n))

IsQuantizable(n) == "Linear" \in Isa(n) \/ "_ConvNd" \in Isa(n)

RECURSIVE PrunableFrom(_, _, _, _)
PrunableFrom(nm, i, hasQat, hasConv1d) ==
    IF i > Len(nm) THEN <<>>
    ELSE LET rest == PrunableFrom(nm, i + 1, hasQat, hasConv1d)
         IN  IF IsPrunable(nm[i][2], hasQat, hasConv1d)
             THEN <<<<nm[i][1], LayerV(nm[i][2])>>>> \o rest ELSE rest

get_prunable_layers(ks, hasQat, hasConv1d) ==
    Ok(PrunableFrom(named_modules(ks, Root), 1, hasQat, hasConv1d))

RECURSIVE QuantizableFrom(_, _)
QuantizableFrom(nm, i) ==
    IF i > Len(nm) THEN <<>>
    ELSE LET rest == QuantizableFrom(nm, i + 1)
         IN  IF IsQuantizable(nm[i][2])
             THEN <<<<nm[i][1], LayerV(nm[i][2])>>>> \o rest ELSE rest

get_quantizable_layers(ks, hasQat) ==
    IF ~hasQat THEN Raise("ImportError")
    ELSE Ok(QuantizableFrom(named_modules(ks, Root), 1))

\* ------------------------------------------------------ get_default_params
\* the first parameter of layer.named_parameters() named "weight", if any
RECURSIVE FirstWeight(_, _)
FirstWeight(np, i) ==
    IF i > Len(np) THEN <<>>
    ELSE IF np[i][1] = WEIGHT THEN <<np[i][2]>>
    ELSE FirstWeight(np, i + 1)

RECURSIVE DefaultParamsFrom(_, _, _)
DefaultParamsFrom(ks, layers, i) ==
    IF i > Len(layers) THEN <<>>
    ELSE LET w == FirstWeight(named_parameters(ks, layers[i][2].id), 1)
             rest == DefaultParamsFrom(ks, layers, i + 1)
         IN  IF w = <<>> THEN rest ELSE <<<<layers[i][1], w[1]>>>> \o rest

\* mutant: a descendant's weight ("a.weight") counts as the layer's own
RECURSIVE AnyWeight(_, _)
AnyWeight(np, i) ==
    IF i > Len(np) THEN <<>>
    ELSE IF LastSegment(np[i][1]) = WEIGHT THEN <<np[i][2]>>
    ELSE AnyWeight(np, i + 1)

RECURSIVE DefaultParamsNestedFrom(_, _, _)
DefaultParamsNestedFrom(ks, layers, i) ==
    IF i > Len(layers) THEN <<>>
    ELSE LET w == AnyWeight(named_parameters(ks, layers[i][2].id), 1)
             rest == DefaultParamsNestedFrom(ks, layers, i + 1)
         IN  IF w = <<>> THEN rest ELSE <<<<layers[i][1], w[1]>>>> \o rest

get_default_params_nested(ks, layers) == DefaultParamsNestedFrom(ks, layers, 1)

get_default_params(ks, layers) == DefaultParamsFrom(ks, layers, 1)

\* --------------------------------------------------- match_layers_params
\* mutant: no target is taken for a sentinel
SentinelNever(targets) == "none"

\* lines 111, 116, 121: targets == ALL_TARGET, ... (a list never equals a str)
SentinelOf(targets) ==
    IF ~targets.isStr THEN "none"
    ELSE IF targets.str = ALL_TARGET THEN "all"
    ELSE IF targets.str = ALL_PRUNABLE_TARGET THEN "prunable"
    ELSE IF targets.str = ALL_QUANTIZABLE_TARGET THEN "quantizable"
    ELSE "none"

\* mutant: a parameter match stores the layer whatever `params` says
ParamEntryLayer(n, pv, params) == LayerV(n)

\* line 154: layer if not params else param
ParamEntry(n, pv, params) == IF ~params THEN LayerV(n) ELSE pv

\* targets_found[index] = True
Mark(found, index) == [found EXCEPT ![index + 1] = TRUE]

\* lines 145-154: the parameters the layer owns itself
RECURSIVE ParamLoop(_, _, _, _, _, _, _)
ParamLoop(st, name, n, np, i, tl, params) ==
    IF i > Len(np) THEN st
    ELSE IF HasDot(np[i][1]) THEN ParamLoop(st, name, n, np, i + 1, tl, params)
    ELSE LET pm == match_targets(Compound(name, np[i][1]), ListT(tl))
         IN  IF pm[1]
             THEN ParamLoop([resolved |-> DictSet(st.resolved, name,
                                                  ParamEntry(n, np[i][2], params)),
                             found |-> Mark(st.found, pm[2])],
                            name, n, np, i + 1, tl, params)
             ELSE ParamLoop(st, name, n, np, i + 1, tl, params)

\* lines 134-143: the layer itself, by name and else by class
NodeStep(st, name, n, tl, params) ==
    LET m == match_targets(name, ListT(tl))
    IN  IF m[1] /\ ~params
        THEN [resolved |-> DictSet(st.resolved, name, LayerV(n)),
              found |-> Mark(st.found, m[2])]
        ELSE LET c == match_class(ClassName(n), ListT(tl))
             IN  IF c[1]
                 THEN [resolved |-> DictSet(st.resolved, name, LayerV(n)),
                       found |-> Mark(st.found, c[2])]
                 ELSE st

\* lines 132-154: one pass over module.named_modules()
RECURSIVE WalkLoop(_, _, _, _, _, _)
WalkLoop(st, ks, nm, i, tl, params) ==
    IF i > Len(nm) THEN st
    ELSE LET name == fix_fsdp_module_name(nm[i][1])
             n == nm[i][2]
             st1 == NodeStep(st, name, n, tl, params)
             st2 == ParamLoop(st1, name, n, named_parameters(ks, n), 1, tl, params)
         IN  WalkLoop(st2, ks, nm, i + 1, tl, params)

\* values if not params else get_default_params(values)
Project(ks, values, params) ==
    IF ~values.ok \/ ~params THEN values ELSE Ok(get_default_params(ks, values.val))

match_layers_params(targets, ks, params, hasQat, hasConv1d) ==
    LET sentinel == SentinelOf(targets)
    IN  IF sentinel = "all" THEN Project(ks, get_terminal_layers(ks), params)
        ELSE IF sentinel = "prunable"
             THEN Project(ks, get_prunable_layers(ks, hasQat, hasConv1d), params)
        ELSE IF sentinel = "quantizable"
             THEN Project(ks, get_quantizable_layers(ks, hasQat), params)
        ELSE LET tl == AsList(targets)
                 st == WalkLoop([resolved |-> <<>>,
                                 found |-> [k \in 1..Len(tl) |-> FALSE]],
                                ks, named_modules(ks, Root), 1, tl, params)
                 missed == SelectSeq([k \in 1..Len(tl) |-> <<st.found[k], tl[k]>>],
                                     LAMBDA x : ~x[1])
             IN  IF Len(missed) > 0
                 THEN RaiseMissed([k \in 1..Len(missed) |-> missed[k][2]])
                 ELSE Ok(st.resolved)

\* get_layers, exclude_internal_modules left at its default
get_layers(targets, ks, hasQat, hasConv1d) ==
    match_layers_params(targets, ks, FALSE, hasQat, hasConv1d)

get_params(targets, ks, hasQat, hasConv1d) ==
    match_layers_params(targets, ks, TRUE, hasQat, hasConv1d)

\* lines 195-199: exactly one layer, or ValueError
OnlyLayer(layers) ==
    IF ~layers.ok THEN layers
    ELSE IF Len(layers.val) # 1 THEN Raise("ValueError:expected1")
    ELSE Ok(layers.val[1])

get_layer(target, ks, hasQat, hasConv1d) ==
    OnlyLayer(get_layers(StrT(target), ks, hasQat, hasConv1d))

\* ---------------------------------------------------- get_matching_layer
\* difflib.SequenceMatcher.find_longest_match(0, len(a), 0, len(b)): the
\* length k of the longest block a[i-k+1..i] = b[j-k+1..j] (j2len)
RECURSIVE J2Len(_, _, _, _)
J2Len(a, b, i, j) ==
    IF i < 1 \/ j < 1 THEN 0
    ELSE IF a[i] # b[j] THEN 0
    ELSE J2Len(a, b, i - 1, j - 1) + 1

\* bestsize: the largest k the scan meets, 0 when no character is shared
find_longest_match(a, b) ==
    LET sizes == {J2Len(a, b, i, j) : i \in 1..Len(a), j \in 1..Len(b)} \cup {0}
    IN  CHOOSE k \in sizes : \A x \in sizes : x <= k

\* mutant: a later candidate of equal length replaces the earlier one
BetterOrEqual(match_length, largest_substring) == match_length >= largest_substring

\* line 334: match_length > largest_substring
Better(match_length, largest_substring) == match_length > largest_substring

RECURSIVE BestMatchLoop(_, _, _, _, _)
BestMatchLoop(pm, i, name_to_match, match, largest_substring) ==
    IF i > Len(pm) THEN match
    ELSE LET match_length == find_longest_match(pm[i][1], name_to_match)
         IN  IF Better(match_length, largest_substring)
             THEN BestMatchLoop(pm, i + 1, name_to_match, <<pm[i]>>, match_length)
             ELSE BestMatchLoop(pm, i + 1, name_to_match, match, largest_substring)

\* the result is <<>> for None and <<(name, module)>> otherwise
get_matching_layer(target, name_to_match, ks, hasQat, hasConv1d) ==
    LET potential_matches == get_layers(StrT(target), ks, hasQat, hasConv1d)
    IN  IF ~potential_matches.ok THEN potential_matches
        ELSE Ok(BestMatchLoop(potential_matches.val, 1, name_to_match, <<>>, 0))

\* ----------------------------------------------------------------- set_layer
\* getattr(parent_layer, name): a child module, a parameter, or the plain
\* attribute every Module carries (training); AttributeError otherwise
GetAttr(ks, n, name) ==
    IF \E i \in 1..Len(ks[n]) : ks[n][i][1] = name
    THEN Ok(LayerV(DictGet(ks[n], name)))
    ELSE IF \E i \in 1..Len(OwnParams(n)) : OwnParams(n)[i] = name
         THEN Ok(ParamV(n, name))
    ELSE IF name = TRAINING THEN Ok([kind |-> "plain", id |-> n, pname |-> name])
    ELSE Raise("AttributeError")

\* Module.__setattr__(name, layer) with a Module value: refused over a
\* parameter, otherwise the name leaves __dict__ and _modules[name] = layer
SetAttr(ks, n, name, layer) ==
    IF \E i \in 1..Len(OwnParams(n)) : OwnParams(n)[i] = name
    THEN Raise("TypeError")
    ELSE Ok([ks EXCEPT ![n] = DictSet(ks[n], name, layer)])

\* maybe_get_wrapped(module): the module itself unless it is an FSDP wrapper
maybe_get_wrapped(n) == n

\* lines 212-213: the old child is read, then the slot is rewritten
Swap(ks, parent_layer, name, layer, old_layer) ==
    IF ~old_layer.ok THEN [ret |-> old_layer, ks |-> ks]
    ELSE IF ~SetAttr(ks, parent_layer, name, layer).ok
         THEN [ret |-> SetAttr(ks, parent_layer, name, layer), ks |-> ks]
    ELSE [ret |-> old_layer, ks |-> SetAttr(ks, parent_layer, name, layer).val]

\* get_layer(parent_target, module)[1]
SecondOf(found) == IF found.ok THEN Ok(found.val[2].id) ELSE found

\* lines 207-211: the parent of the target, the root for a target without "."
ParentLayer(parent_target, ks, hasQat, hasConv1d) ==
    IF parent_target # <<>>
    THEN SecondOf(get_layer(parent_target, ks, hasQat, hasConv1d))
    ELSE Ok(maybe_get_wrapped(Root))

SwapUnder(target, layer, ks, parent_layer) ==
    IF ~parent_layer.ok THEN [ret |-> parent_layer, ks |-> ks]
    ELSE Swap(ks, parent_layer.val, LastSegment(target), layer,
              GetAttr(ks, parent_layer.val, LastSegment(target)))

\* the body of the with block, lines 207-213: the outcome and the tree after
SetLayerBody(target, layer, ks, hasQat, hasConv1d) ==
    SwapUnder(target, layer, ks, ParentLayer(ParentPath(target), ks, hasQat, hasConv1d))

\* ------------------------------------------------------------------- inputs
SeqUpTo(S, n) == UNION {[1..k -> S] : k \in 0..n}
TargetSpecs(S) == {StrT(t) : t \in S} \cup {ListT(l) : l \in SeqUpTo(S, MaxTargets)}

T_Linear == <<"L", "i", "n", "e", "a", "r">>
T_La == <<"L", "i", "n", "e", "a", "r", ".", "a">>
T_reL == <<"r", "e", ":", "L">>
T_reWeight == <<"r", "e", ":", ".", "*", "w", "e", "i", "g", "h", "t", "$">>
T_M == <<"M">>
T_zz == <<"z", "z">>

\* targets of the resolver: a string that is an attribute name and a class
\* name, a dotted name, a prefix pattern, a pattern for parameter names, a
\* class name, a stranger
Targets == {T_Linear, T_La, T_reL, T_reWeight, T_M, T_zz}
Sentinels == {ALL_TARGET, ALL_PRUNABLE_TARGET, ALL_QUANTIZABLE_TARGET}
ResolverSpecs ==
    TargetSpecs(Targets) \cup {StrT(t) : t \in Sentinels} \cup {ListT(<<ALL_TARGET>>)}

\* reference names of get_matching_layer
NamesToMatch == {T_La, <<"a">>, <<"L", "i", "n", "e", "a", "r", ".", "x">>, T_zz}

\* inputs of the matchers
T_Ma == <<"M", ".", "a">>
T_reM == <<"r", "e", ":", "M">>
T_reMa == <<"r", "e", ":", "M", ".", "a">>
T_reEndA == <<"r", "e", ":", ".", "*", "a", "$">>
T_reEmpty == <<"r", "e", ":">>
T_reLinear == <<"r", "e", ":", "L", "i", "n", "e", "a", "r">>
T_reAny == <<"r", "e", ":", ".", "*">>
MatcherTargets == {T_M, T_Ma, <<"a", ".", "M">>, T_reM, T_reMa, T_reEndA, T_reEmpty}
MatcherNames ==
    {<<>>, T_M, T_Ma, <<"M", "x", "a">>, <<"a", ".", "M">>, <<"M", ".", "a", ".", "b">>}
ClassTargets == {T_Linear, T_reLinear, T_reAny, T_M}
ClassNames == {T_Linear, T_reLinear, T_M, <<"L", "i", "n", "e", "a", "r", "8">>}

\* targets of set_layer
SetTargets ==
    {T_Linear, <<"a">>, T_La, <<"a", ".", "a">>, TRAINING,
     <<"a", ".", "w", "e", "i", "g", "h", "t">>, T_zz, T_reAny}

\* ------------------------------------------------------------ initial trees
NoSlot == <<>>
Slots == {<<p, a>> : p \in {"r", "m"}, a \in Attrs}
NonRoot == {NodeOrder[i] : i \in 1..Len(NodeOrder)}

\* where each object other than the root is attached, if anywhere: "m" only
\* under the root, no two objects in one slot
Placements ==
    {f \in [NonRoot -> Slots \cup {NoSlot}] :
        /\ f["m"] = NoSlot \/ f["m"][1] = Root
        /\ \A x, y \in NonRoot : (x # y /\ f[x] # NoSlot) => f[x] # f[y]}

RECURSIVE KidsFrom(_, _, _)
KidsFrom(f, p, i) ==
    IF i > Len(NodeOrder) THEN <<>>
    ELSE (IF f[NodeOrder[i]] # NoSlot /\ f[NodeOrder[i]][1] = p
          THEN <<<<f[NodeOrder[i]][2], NodeOrder[i]>>>> ELSE <<>>)
         \o KidsFrom(f, p, i + 1)

TreeOf(f) == [n \in Nodes |-> KidsFrom(f, n, 1)]

NoCall == [op |-> "none", args |-> <<>>, ret |-> Ok(<<>>), pre |-> <<>>, post |-> <<>>]
NoFrame == [target |-> <<>>, layer |-> Root, ret |-> Ok(<<>>), pre |-> <<>>]

Init ==
    /\ \E f \in Placements : kids = TreeOf(f)
    /\ qat \in BOOLEAN
    /\ conv1d \in BOOLEAN
    /\ last = NoCall
    /\ pc = "idle"
    /\ frame = NoFrame
    /\ summon = 0
    /\ nsets = 0
    /\ prev = NoCall

\* the matchers are checked on their own: no tree takes part
InitMatch ==
    /\ kids = [n \in Nodes |-> <<>>]
    /\ qat = TRUE
    /\ conv1d = TRUE
    /\ last = NoCall
    /\ pc = "idle"
    /\ frame = NoFrame
    /\ summon = 0
    /\ nsets = 0
    /\ prev = NoCall

\* the mutator is checked with every optional type importable
InitSet == Init /\ qat /\ conv1d

\* ------------------------------------------------------------------ actions
\* A query reads the tree and leaves it alone: a behaviour issues one query
\* on the tree it started with and records the call and its outcome.
Completed(op, args, ret) ==
    /\ last' = [op |-> op, args |-> args, ret |-> ret, pre |-> kids, post |-> kids]
    /\ UNCHANGED <<kids, qat, conv1d, pc, frame, summon, nsets, prev>>

CallMatchTargets ==
    /\ last.op = "none" /\ pc = "idle"
    /\ \E name \in MatcherNames, targets \in TargetSpecs(MatcherTargets) :
         Completed("match_targets", [name |-> name, targets |-> targets],
                   match_targets(name, targets))

CallMatchClass ==
    /\ last.op = "none" /\ pc = "idle"
    /\ \E cls \in ClassNames, targets \in TargetSpecs(ClassTargets) :
         Completed("match_class", [cls |-> cls, targets |-> targets],
                   match_class(cls, targets))

\* get_default_params on any selection of the tree's layers, in walk order
CallGetDefaultParams ==
    /\ last.op = "none" /\ pc = "idle"
    /\ LET nm == named_modules(kids, Root)
       IN  \E S \in SUBSET (1..Len(nm)) :
             LET pick == SelectSeq([i \in 1..Len(nm) |-> <<i, nm[i]>>],
                                   LAMBDA x : x[1] \in S)
                 layers == [i \in 1..Len(pick) |->
                              <<pick[i][2][1], LayerV(pick[i][2][2])>>]
             IN  Completed("get_default_params", [layers |-> layers],
                           get_default_params(kids, layers))

CallMatchLayersParams ==
    /\ last.op = "none" /\ pc = "idle"
    /\ \E targets \in ResolverSpecs, params \in BOOLEAN :
         Completed("match_layers_params", [targets |-> targets, params |-> params],
                   match_layers_params(targets, kids, params, qat, conv1d))

CallGetMatchingLayer ==
    /\ last.op = "none" /\ pc = "idle"
    /\ \E target \in Targets \cup Sentinels, name_to_match \in NamesToMatch :
         Completed("get_matching_layer",
                   [target |-> target, name_to_match |-> name_to_match],
                   get_matching_layer(target, name_to_match, kids, qat, conv1d))

\* set_layer, line 203: the with block is entered
SetEnter ==
    /\ pc = "idle" /\ nsets < MaxSets
    /\ \E target \in SetTargets, layer \in NonRoot :
         frame' = [target |-> target, layer |-> layer, ret |-> Ok(<<>>), pre |-> kids]
    /\ summon' = summon + 1
    /\ nsets' = nsets + 1
    /\ pc' = "body"
    /\ UNCHANGED <<kids, qat, conv1d, last, prev>>

\* lines 207-213: the parent is looked up and the child slot rewritten, or
\* an exception leaves the block
SetBody ==
    /\ pc = "body"
    /\ \E b \in {SetLayerBody(frame.target, frame.layer, kids, qat, conv1d)} :
         /\ kids' = b.ks
         /\ frame' = [frame EXCEPT !.ret = b.ret]
    /\ pc' = "exit"
    /\ UNCHANGED <<qat, conv1d, last, summon, nsets, prev>>

\* the with block is left, by return or by exception: the context releases
SetExit ==
    /\ pc = "exit"
    /\ summon' = summon - 1
    /\ prev' = last
    /\ last' = [op |-> "set_layer",
                args |-> [target |-> frame.target, layer |-> frame.layer],
                ret |-> frame.ret, pre |-> frame.pre, post |-> kids]
    /\ frame' = NoFrame
    /\ pc' = "idle"
    /\ UNCHANGED <<kids, qat, conv1d, nsets>>

Next == CallGetDefaultParams \/ CallMatchLayersParams \/ CallGetMatchingLayer
NextMatch == CallMatchTargets \/ CallMatchClass
NextSet == SetEnter \/ SetBody \/ SetExit

\* the resolver, the projection and the best-match finder on a tree
Spec == Init /\ [][Next]_vars
\* the two matchers
SpecMatch == InitMatch /\ [][NextMatch]_vars
\* the mutator
SpecSet == InitSet /\ [][NextSet]_vars

\* ------------------------------------------------------------ properties
\* What a target denotes, stated without the matcher's loop or backtracking.
\* Ends(p, n, s): the positions of s at which a match of the first n
\* characters of the pattern p, begun at position 0, can end.
RECURSIVE Ends(_, _, _)
Ends(p, n, s) ==
    IF n = 0 THEN {0}
    ELSE IF p[n] = "*"
         THEN LET before == Ends(p, n - 2, s)
              IN  {j \in 0..Len(s) : \E j0 \in before :
                      j0 <= j /\ \A k \in (j0 + 1)..j : p[n - 1] \in {".", s[k]}}
    ELSE LET before == Ends(p, n - 1, s)
         IN  IF p[n] = "$" THEN before \cap {Len(s)}
             ELSE {j \in 1..Len(s) : (j - 1) \in before /\ p[n] \in {".", s[j]}}

IsPattern(target) ==
    Len(target) >= 3 /\ target[1] = "r" /\ target[2] = "e" /\ target[3] = ":"

\* the target matches the name: a pattern from position 0 on, any other
\* target by equality
Accepts(target, name) ==
    IF IsPattern(target)
    THEN Ends(SubSeq(target, 4, Len(target)), Len(target) - 3, name) # {}
    ELSE target = name

Least(S) == CHOOSE x \in S : \A y \in S : x <= y
Greatest(S) == CHOOSE x \in S : \A y \in S : y <= x

\* the targets of a call as a list
ListOf(targets) == IF targets.isStr THEN <<targets.str>> ELSE targets.list

\* C2: match_targets returns (true, i) for the smallest index i whose target
\* matches the name and (false, -1) when none does; a "re:" target matches
\* iff its pattern matches from position 0 (the end of the name is free), any
\* other target iff it equals the name; a single string is a one-element list.
C2_MatchTargetsFirstIndex ==
    last.op = "match_targets" =>
        LET tl == ListOf(last.args.targets)
            hits == {i \in 1..Len(tl) : Accepts(tl[i], last.args.name)}
        IN  IF hits = {} THEN last.ret = <<FALSE, -1>>
            ELSE last.ret = <<TRUE, Least(hits) - 1>>

\* a pattern that matches a proper prefix of the name is found at index 1,
\* after a literal target that does not match
C2_Witness ==
    /\ last.op = "match_targets"
    /\ last.args.name = T_Ma
    /\ last.args.targets = ListT(<<<<"a", ".", "M">>, T_reM>>)
    /\ last.ret = <<TRUE, 1>>

\* C7: match_class compares the class name with each target character for
\* character and returns the smallest index that is equal, (false, -1) when
\* none is; a target that begins with "re:" is no pattern here.
C7_MatchClassLiteral ==
    last.op = "match_class" =>
        LET tl == ListOf(last.args.targets)
            hits == {i \in 1..Len(tl) : tl[i] = last.args.cls}
        IN  IF hits = {} THEN last.ret = <<FALSE, -1>>
            ELSE last.ret = <<TRUE, Least(hits) - 1>>

\* "re:.*" stands before "Linear" and is passed over for the class Linear
C7_Witness ==
    /\ last.op = "match_class"
    /\ last.args.cls = T_Linear
    /\ last.args.targets = ListT(<<T_reAny, T_Linear>>)
    /\ last.ret = <<TRUE, 1>>

\* the object owns a parameter named "weight" itself
OwnsWeight(n) == \E k \in 1..Len(OwnParams(n)) : OwnParams(n)[k] = WEIGHT

\* C6: get_default_params keeps exactly the layers that own a parameter named
\* "weight" themselves, each mapped to that parameter; a layer without one,
\* a container whose descendants own one included, is dropped without error.
C6_DefaultParamsOwnWeight ==
    last.op = "get_default_params" =>
        LET layers == last.args.layers
            kept == {i \in 1..Len(layers) : OwnsWeight(layers[i][2].id)}
        IN  /\ DictKeys(last.ret) = {layers[i][1] : i \in kept}
            /\ Len(last.ret) = Cardinality(kept)
            /\ \A i \in kept :
                 DictGet(last.ret, layers[i][1]) = ParamV(layers[i][2].id, WEIGHT)

\* the root (whose descendant owns a weight), a layer with a bias only and a
\* layer with a weight are projected: the last alone is kept
C6_Witness ==
    /\ last.op = "get_default_params"
    /\ \E i, j, k \in 1..Len(last.args.layers) :
         /\ last.args.layers[i][2].id = Root
         /\ last.args.layers[j][2].id = "m"
         /\ last.args.layers[k][2].id = "l"
    /\ Len(last.ret) = 1

\* the walk of the tree a completed call ran on
WalkOf(call) == named_modules(call.pre, Root)

\* the layers a sentinel stands for
InClass(sentinel, ks, n) ==
    IF sentinel = ALL_TARGET THEN ks[n] = <<>>
    ELSE IF sentinel = ALL_PRUNABLE_TARGET
         THEN Isa(n) \cap ({"Linear", "_ConvNd"}
                           \cup (IF qat THEN {"QATLinear", "QATConv2d", "QATConv3d"} ELSE {})
                           \cup (IF conv1d THEN {"TransformerConv1D"} ELSE {})) # {}
    ELSE Isa(n) \cap {"Linear", "_ConvNd"} # {}

IsSentinelCall(call) ==
    /\ call.op = "match_layers_params"
    /\ call.args.targets.isStr
    /\ call.args.targets.str \in Sentinels

\* C5: a sentinel target yields exactly the layers of its classifier (leaves,
\* prunable types, quantizable types), each projected to its own "weight"
\* when params is set and dropped when it owns none; nothing is matched by
\* name or class and no unresolved-target error is raised, not even when the
\* set is empty.  (Without QAT support the quantizable sentinel raises
\* ImportError.)
C5_SentinelIsClassifier ==
    IsSentinelCall(last) =>
        LET sentinel == last.args.targets.str
            nm == WalkOf(last)
            want == {i \in 1..Len(nm) :
                        /\ InClass(sentinel, last.pre, nm[i][2])
                        /\ last.args.params => OwnsWeight(nm[i][2])}
        IN  IF sentinel = ALL_QUANTIZABLE_TARGET /\ ~qat
            THEN last.ret = Raise("ImportError")
            ELSE /\ last.ret.ok
                 /\ DictKeys(last.ret.val) = {nm[i][1] : i \in want}
                 /\ Len(last.ret.val) = Cardinality(want)
                 /\ \A i \in want :
                      DictGet(last.ret.val, nm[i][1]) =
                          IF last.args.params THEN ParamV(nm[i][2], WEIGHT)
                          ELSE LayerV(nm[i][2])

\* the prunable sentinel on a tree without a prunable layer: an empty result
C5_Witness ==
    /\ IsSentinelCall(last)
    /\ last.args.targets.str = ALL_PRUNABLE_TARGET
    /\ Len(WalkOf(last)) > 1
    /\ last.ret = Ok(<<>>)

\* the length of the longest contiguous block two strings share
CommonLen(a, b) ==
    Greatest({k \in 0..Min(Len(a), Len(b)) :
                 \E i \in 0..(Len(a) - k), j \in 0..(Len(b) - k) :
                     SubSeq(a, i + 1, i + k) = SubSeq(b, j + 1, j + k)})

\* the position of a name in the walk of the tree
WalkIndex(nm, name) == Least({i \in 1..Len(nm) : nm[i][1] = name})

\* the candidates of a completed get_matching_layer call: what its target
\* resolves to
CandidatesOf(call) == get_layers(StrT(call.args.target), call.pre, qat, conv1d)

\* C4: get_matching_layer returns, among the layers its target resolves to,
\* one whose name shares the longest contiguous block with name_to_match;
\* of several with that length, the first in walk order; never a candidate
\* with a shorter block.
C4_BestMatchFirstOfLongest ==
    (last.op = "get_matching_layer" /\ last.ret.ok) =>
        LET cands == CandidatesOf(last).val
            nm == WalkOf(last)
            len(i) == CommonLen(cands[i][1], last.args.name_to_match)
            best == Greatest({len(i) : i \in 1..Len(cands)} \cup {0})
            longest == {i \in 1..Len(cands) : len(i) = best}
        IN  /\ best > 0 =>
                 \E i \in longest :
                    /\ last.ret.val = <<cands[i]>>
                    /\ \A j \in longest :
                         WalkIndex(nm, cands[i][1]) <= WalkIndex(nm, cands[j][1])
            /\ last.ret.val # <<>> =>
                 CommonLen(last.ret.val[1][1], last.args.name_to_match) = best

\* two candidates share the longest block and a third a shorter one
C4_Witness ==
    /\ last.op = "get_matching_layer" /\ last.ret.ok /\ last.ret.val # <<>>
    /\ LET cands == CandidatesOf(last).val
           len(i) == CommonLen(cands[i][1], last.args.name_to_match)
       IN  \E i, j, k \in 1..Len(cands) :
              /\ i # j /\ len(i) = len(j) /\ len(k) < len(i)
              /\ \A x \in 1..Len(cands) : len(x) <= len(i)

\* the parameters of a layer whose compound name "layer.param" a target of
\* the list matches
ParamHits(tl, name, n) ==
    {k \in 1..Len(OwnParams(n)) :
        \E t \in 1..Len(tl) : Accepts(tl[t], Compound(name, OwnParams(n)[k]))}

IsParamsCall(call) ==
    /\ call.op = "match_layers_params"
    /\ ~IsSentinelCall(call)
    /\ call.args.params
    /\ call.ret.ok

\* C8 as stated: with params set, a layer whose class name is a target is
\* held under its name as the layer itself, whatever the other targets.
C8_Original ==
    IsParamsCall(last) =>
        LET tl == ListOf(last.args.targets)
            nm == WalkOf(last)
        IN  \A i \in 1..Len(nm) :
              (\E t \in 1..Len(tl) : tl[t] = ClassName(nm[i][2])) =>
                 /\ nm[i][1] \in DictKeys(last.ret.val)
                 /\ DictGet(last.ret.val, nm[i][1]) = LayerV(nm[i][2])

\* C8, amended: with params set, a layer whose class name is a target is
\* held under its name as the layer itself unless a target also matches the
\* compound name of one of the parameters it owns; then the entry holds the
\* last such parameter.
C8_ClassMatchUnlessParamMatch ==
    IsParamsCall(last) =>
        LET tl == ListOf(last.args.targets)
            nm == WalkOf(last)
        IN  \A i \in 1..Len(nm) :
              (\E t \in 1..Len(tl) : tl[t] = ClassName(nm[i][2])) =>
                 /\ nm[i][1] \in DictKeys(last.ret.val)
                 /\ DictGet(last.ret.val, nm[i][1]) =
                      IF ParamHits(tl, nm[i][1], nm[i][2]) = {} THEN LayerV(nm[i][2])
                      ELSE ParamV(nm[i][2],
                                  OwnParams(nm[i][2])[Greatest(ParamHits(tl, nm[i][1], nm[i][2]))])

\* a layer matched by its class, two of whose parameters a pattern of the
\* list matches, is held as the second of them
C8_Witness ==
    /\ IsParamsCall(last)
    /\ LET tl == ListOf(last.args.targets)
           nm == WalkOf(last)
       IN  \E i \in 1..Len(nm) :
              /\ \E t \in 1..Len(tl) : tl[t] = ClassName(nm[i][2])
              /\ Cardinality(ParamHits(tl, nm[i][1], nm[i][2])) = 2
              /\ DictGet(last.ret.val, nm[i][1]) = ParamV(nm[i][2], BIAS)

\* the target matches something of the tree: a layer name, a class name or
\* the compound name of a parameter a layer owns
MatchesSomething(target, ks) ==
    LET nm == named_modules(ks, Root)
    IN  \E i \in 1..Len(nm) :
          \/ Accepts(target, nm[i][1])
          \/ target = ClassName(nm[i][2])
          \/ \E k \in 1..Len(OwnParams(nm[i][2])) :
                Accepts(target, Compound(nm[i][1], OwnParams(nm[i][2])[k]))

\* C1 as stated: match_layers_params raises the unresolved-target error iff
\* some target matches no layer name, class name or owned parameter name, and
\* the error lists exactly the targets that match nothing.
C1_Original ==
    (last.op = "match_layers_params" /\ ~IsSentinelCall(last)) =>
        LET tl == ListOf(last.args.targets)
            nothing == SelectSeq(tl, LAMBDA t : ~MatchesSomething(t, last.pre))
        IN  /\ (last.ret.err = "ValueError:targets") <=> (Len(nothing) > 0)
            /\ last.ret.missed = nothing

\* C9 as stated: get_matching_layer returns None, and does not fail, when its
\* target resolves to no candidate and when no candidate shares a block of
\* positive length with name_to_match.  (The ImportError of the quantizable
\* sentinel without QAT support is left aside.)
C9_Original ==
    (/\ last.op = "get_matching_layer"
     /\ ~(last.args.target = ALL_QUANTIZABLE_TARGET /\ ~qat)) =>
        LET r == CandidatesOf(last)
            names == IF r.ok THEN DictKeys(r.val) ELSE {}
        IN  (\A c \in names : CommonLen(c, last.args.name_to_match) = 0) =>
                last.ret = Ok(<<>>)

\* the names of the layers of a tree, the root's empty name left out
LayerNames(ks) ==
    {named_modules(ks, Root)[i][1] : i \in 1..Len(named_modules(ks, Root))} \ {<<>>}

\* the layer that stands under a name in the walk of a tree
LayerAt(ks, name) ==
    LET nm == named_modules(ks, Root)
    IN  nm[Least({i \in 1..Len(nm) : nm[i][1] = name})][2]

\* the tree with the slot a target names holding another layer
Replaced(ks, target, layer) ==
    [ks EXCEPT ![LayerAt(ks, ParentPath(target))] =
        DictSet(@, LastSegment(target), layer)]

\* C3 as stated: for a target that names a layer of the tree, set_layer
\* returns the layer that stood there and changes nothing but that slot; a
\* second call on the same target with the layer the first returned gives
\* back the layer the first put in and leaves the tree as it was before both.
C3_Original ==
    (last.op = "set_layer" /\ last.args.target \in LayerNames(last.pre)) =>
        /\ last.ret = Ok(LayerV(LayerAt(last.pre, last.args.target)))
        /\ last.post = Replaced(last.pre, last.args.target, last.args.layer)
        /\ (/\ prev.op = "set_layer"
            /\ prev.args.target = last.args.target
            /\ prev.args.target \in LayerNames(prev.pre)
            /\ prev.post = last.pre
            /\ prev.ret = Ok(LayerV(last.args.layer)))
           => /\ last.ret = Ok(LayerV(prev.args.layer))
              /\ last.post = prev.pre

\* C10 as stated: when the target does not resolve to exactly one layer,
\* set_layer fails, the tree is as before the call and the acquisition of
\* the sharded parameters is released.
C10_Original ==
    (/\ last.op = "set_layer"
     /\ ~get_layer(last.args.target, last.pre, qat, conv1d).ok) =>
        /\ ~last.ret.ok
        /\ last.post = last.pre
        /\ pc = "idle" => summon = 0

====
